---------------------------- MODULE Spec2Model ----------------------------
(***************************************************************************)
(* A model of the in-memory todo service of src/main.go: the package-level *)
(* state (todos, nextID, mu), the five request handlers, the JSON encoding *)
(* of a response and the saving of uploaded files.  One request is one     *)
(* worker goroutine of the fasthttp server; a step of the model is one     *)
(* access to shared memory (the map, the counter, a field of a *Todo, the  *)
(* lock, the uploads directory) together with the local computation that   *)
(* follows it.                                                             *)
(***************************************************************************)
EXTENDS Integers, Sequences, FiniteSets, TLC

(***************************************************************************)
(* Bounds of the model.                                                    *)
(***************************************************************************)
\* Number of worker goroutines serving requests at the same time.
MaxInFlight == 2
\* Number of requests the server receives in one behaviour.
MaxReqs == 3
\* Largest value the nanosecond clock reaches.
MaxClock == 1

(***************************************************************************)
(* Program constants.                                                      *)
(***************************************************************************)
StatusOK == 200
StatusCreated == 201
StatusNoContent == 204
StatusBadRequest == 400
StatusNotFound == 404
StatusInternalServerError == 500
\* The nil *Todo, and the zero value of the int fields.
Nil == 0

Slots == 1..MaxInFlight

(***************************************************************************)
(* Data: Subtask and Todo structs, and their JSON encodings.               *)
(***************************************************************************)
\* The zero value of a Todo, as &Todo{} would hold it.
ZeroTodo ==
    [ID |-> 0, Title |-> "", Description |-> "", Completed |-> FALSE,
     Images |-> <<>>, Subtasks |-> <<>>]

\* A JSON object is a function from keys to values; this is {}.
EmptyObj == <<>>

\* json.Marshal of one Subtask: "id" carries omitempty.
MarshalSubtask(s) ==
    (IF s.ID = 0 THEN EmptyObj ELSE ("id" :> s.ID))
        @@ ("title" :> s.Title) @@ ("completed" :> s.Completed)

\* The subtasks texts a client sends, as JSON source text.
DoneJSON == "[{\"title\":\"go\",\"completed\":true}]"
MixedJSON == "[{\"id\":7,\"completed\":true},{\"title\":\"b\"}]"
EmptyJSON == "[]"
BadJSON == "[{\"completed\":tru"
TypeErrJSON == "[{\"completed\":true},{\"completed\":\"no\"}]"

\* A decoder whose error is dropped: the caller sees what was decoded.
Unmarshal_NoError(text) ==
    CASE text = DoneJSON ->
           [err |-> FALSE,
            val |-> <<[ID |-> 0, Title |-> "go", Completed |-> TRUE]>>]
      [] text = MixedJSON ->
           [err |-> FALSE,
            val |-> <<[ID |-> 7, Title |-> "", Completed |-> TRUE],
                      [ID |-> 0, Title |-> "b", Completed |-> FALSE]>>]
      [] text = EmptyJSON -> [err |-> FALSE, val |-> <<>>]
      [] text = TypeErrJSON ->
           [err |-> FALSE,
            val |-> <<[ID |-> 0, Title |-> "", Completed |-> TRUE],
                      [ID |-> 0, Title |-> "", Completed |-> FALSE]>>]
      [] OTHER -> [err |-> FALSE, val |-> <<>>]

\* json.Unmarshal([]byte(text), &subtasks) with subtasks a nil []Subtask:
\* the error, and the slice it leaves.  A key that is absent leaves the
\* field's zero value.  Text that is no JSON is rejected before anything is
\* decoded; a value of the wrong type is skipped, the rest is decoded and
\* the error returned at the end.
Unmarshal(text) ==
    CASE text = DoneJSON ->
           [err |-> FALSE,
            val |-> <<[ID |-> 0, Title |-> "go", Completed |-> TRUE]>>]
      [] text = MixedJSON ->
           [err |-> FALSE,
            val |-> <<[ID |-> 7, Title |-> "", Completed |-> TRUE],
                      [ID |-> 0, Title |-> "b", Completed |-> FALSE]>>]
      [] text = EmptyJSON -> [err |-> FALSE, val |-> <<>>]
      [] text = TypeErrJSON ->
           [err |-> TRUE,
            val |-> <<[ID |-> 0, Title |-> "", Completed |-> TRUE],
                      [ID |-> 0, Title |-> "", Completed |-> FALSE]>>]
      [] OTHER -> [err |-> TRUE, val |-> <<>>]

\* checkAllSubtasksCompleted with the empty case forgotten.
checkAllSubtasksCompleted_Vacuous(subtasks) ==
    \A i \in 1..Len(subtasks) : subtasks[i].Completed

\* checkAllSubtasksCompleted: at least one subtask and all are completed.
checkAllSubtasksCompleted(subtasks) ==
    IF Len(subtasks) = 0 THEN FALSE
    ELSE \A i \in 1..Len(subtasks) : subtasks[i].Completed

(***************************************************************************)
(* Requests.  A multipart form has a Value map (field name to text; a      *)
(* field the client left out is no key of the map) and the file headers of *)
(* its "images" field, each with the original filename.                    *)
(***************************************************************************)
NoForm == [ok |-> TRUE, Value |-> <<>>, File |-> <<>>]

\* Forms that vary the text fields.
TextForms ==
    { [ok |-> TRUE, Value |-> v, File |-> <<>>] :
        v \in { <<>>, ("title" :> ""), ("description" :> ""),
                ("title" :> "a") @@ ("description" :> "d") } }

\* Forms that vary the subtasks payload.
SubtaskForms ==
    { [ok |-> TRUE, Value |-> ("subtasks" :> s), File |-> <<>>] :
        s \in {"", EmptyJSON, DoneJSON, MixedJSON, BadJSON, TypeErrJSON} }

\* Forms that vary the uploaded files.
FileForms ==
    { [ok |-> TRUE, Value |-> <<>>, File |-> f] :
        f \in { <<"a.png">>, <<"a.png", "b.png">> } }

\* A body that is no multipart form: ctx.MultipartForm() returns an error.
BadForm == [ok |-> FALSE, Value |-> <<>>, File |-> <<>>]

\* A form with an image and a subtasks text that does not decode.
BadSubtasksUpload ==
    [ok |-> TRUE, Value |-> ("subtasks" :> BadJSON), File |-> <<"a.png">>]

Forms ==
    TextForms \cup SubtaskForms \cup FileForms \cup {BadForm, BadSubtasksUpload}

\* The forms of clients that upload no file.
FieldForms == TextForms \cup SubtaskForms \cup {BadForm}

\* The forms of clients that send images, with no text field or with a
\* subtasks text that does not decode.
UploadForms == FileForms \cup {NoForm, BadSubtasksUpload}

\* The ids a client asks for in a path /todos/{id}.
PathIDs == 1..(MaxReqs - 2)

\* filepath.Join("uploads", fmt.Sprintf("%d_%s", ts, name)).
FilePath(ts, name) == [dir |-> "uploads", ts |-> ts, name |-> name]

\* json.Marshal of a Todo: "id", "images" and "subtasks" carry omitempty.
MarshalTodo(t) ==
    (IF t.ID = 0 THEN EmptyObj ELSE ("id" :> t.ID))
        @@ ("title" :> t.Title)
        @@ ("description" :> t.Description)
        @@ ("completed" :> t.Completed)
        @@ (IF Len(t.Images) = 0 THEN EmptyObj ELSE ("images" :> t.Images))
        @@ (IF Len(t.Subtasks) = 0 THEN EmptyObj
            ELSE ("subtasks" :>
                    [i \in 1..Len(t.Subtasks) |-> MarshalSubtask(t.Subtasks[i])]))

(***************************************************************************)
(* State.                                                                  *)
(***************************************************************************)
VARIABLES
    todos,          \* the map[int]*Todo: key |-> pointer
    heap,           \* the Todo structs allocated so far; a pointer is an index
    nextID,         \* the id counter
    writer,         \* the request holding mu.Lock(), or Nil
    readers,        \* the requests holding mu.RLock()
    clock,          \* the last value time.Now().UnixNano() returned
    disk,           \* the paths of the files in the uploads directory
    req,            \* per worker: the request it serves and its locals
    nreq,           \* history: requests received so far
    issued,         \* history: the ids stored by Create, in commit order
    deleted,        \* history: the ids whose Delete answered 204
    createReturned, \* history: the ids whose Create has produced its response
    versions,       \* history: every value a stored Todo had at an Unlock
    saved,          \* history: the paths saveUploadedFile has returned
    created,        \* history: per id, the body its Create responded with
    disturbed       \* history: the ids an Update or Delete was in flight
                    \* for, each with the phase its Create was in by then

vars == <<todos, heap, nextID, writer, readers, clock, disk, req, nreq,
          issued, deleted, createReturned, versions, saved, created,
          disturbed>>

\* A worker with no request.
IdleReq ==
    [op |-> "", pc |-> "idle", id |-> 0, form |-> NoForm, todo |-> Nil,
     title |-> "", description |-> "", subtasks |-> <<>>, images |-> <<>>,
     completed |-> FALSE, buf |-> ZeroTodo,
     status |-> 0, msg |-> "", body |-> EmptyObj, list |-> <<>>,
     delSeen |-> {}, absentAtWrite |-> FALSE, seenTitle |-> "",
     seenDescription |-> "", issuedSeen |-> {}, returnedSeen |-> {},
     saves |-> 0, saveFailed |-> FALSE, wrote |-> FALSE]

Init ==
    /\ todos = <<>>
    /\ heap = <<>>
    /\ nextID = 1
    /\ writer = Nil
    /\ readers = {}
    /\ clock = 0
    /\ disk = {}
    /\ req = [r \in Slots |-> IdleReq]
    /\ nreq = 0
    /\ issued = <<>>
    /\ deleted = {}
    /\ createReturned = {}
    /\ versions = {}
    /\ saved = {}
    /\ created = <<>>
    /\ disturbed = {}

(***************************************************************************)
(* mu sync.RWMutex.                                                        *)
(***************************************************************************)
\* A Lock() that excludes nobody.
CanLock_NoExclusion == TRUE

\* mu.Lock() returns: no writer and no reader holds the lock.
CanLock == writer = Nil /\ readers = {}

\* An RLock() that does not wait for the writer.
CanRLock_NoWait == TRUE

\* mu.RLock() returns: no writer holds the lock.
CanRLock == writer = Nil

(***************************************************************************)
(* requestHandler: a worker takes the next request and dispatches it.      *)
(***************************************************************************)
\* The worker that takes the next request: the first idle one.
CanStart(r) ==
    /\ req[r].pc = "idle"
    /\ nreq < MaxReqs
    /\ \A q \in Slots : q < r => req[q].pc # "idle"

\* The ids whose history is noted with a request: all of them for the list,
\* its own for a Get or a Delete, none where no statement looks back.
About(op, id) ==
    IF op = "LIST" THEN 1..MaxReqs
    ELSE IF op \in {"GET", "DELETE"} THEN {id} ELSE {}

\* The request is taken; the history it could have seen is noted with it.
Begin(r, op, pc, id, form) ==
    /\ CanStart(r)
    /\ req' = [req EXCEPT ![r] =
                 [IdleReq EXCEPT
                    !.op = op, !.pc = pc, !.id = id, !.form = form,
                    !.delSeen = deleted,
                    !.issuedSeen =
                        {issued[i] : i \in 1..Len(issued)} \cap About(op, id),
                    !.returnedSeen = createReturned \cap About(op, id)]]
    /\ nreq' = nreq + 1
    /\ disturbed' =
           IF op \in {"PUT", "DELETE"} /\ id \in createReturned
           THEN disturbed \cup {[id |-> id, after |-> "response"]}
           ELSE IF /\ op \in {"PUT", "DELETE"}
                   /\ \E i \in 1..Len(issued) : issued[i] = id
           THEN disturbed \cup {[id |-> id, after |-> "commit"]}
           ELSE disturbed
    /\ UNCHANGED <<todos, heap, nextID, writer, readers, clock, disk,
                   issued, deleted, createReturned, versions, saved,
                   created>>

RouteGetTodos(r) == Begin(r, "LIST", "list_rlock", 0, NoForm)

RouteGetTodo(r) == \E id \in PathIDs : Begin(r, "GET", "get_lookup", id, NoForm)

RouteCreateTodo(r, F) ==
    \E form \in F : Begin(r, "POST", "create_parse", 0, form)

RouteUpdateTodo(r, F) ==
    \E id \in PathIDs, form \in F :
        Begin(r, "PUT", "update_check", id, form)

RouteDeleteTodo(r) ==
    \E id \in PathIDs : Begin(r, "DELETE", "delete_lock", id, NoForm)

\* ctx.Error(msg, status): the handler's response, a status and a text.
Fail(r, status, msg) ==
    req' = [req EXCEPT ![r].pc = "responded", ![r].status = status,
                       ![r].msg = msg]

\* The handler has returned and the worker is free again.
Return(r) ==
    /\ req[r].pc = "responded"
    /\ req' = [req EXCEPT ![r] = IdleReq]
    /\ UNCHANGED <<todos, heap, nextID, writer, readers, clock, disk, nreq,
                   issued, deleted, createReturned, versions, saved,
                   created, disturbed>>

(***************************************************************************)
(* json.Marshal(todo) on a *Todo, outside the lock: the encoder reads the  *)
(* struct's fields one after the other, in declaration order, while an     *)
(* Update may be writing them.  Each read returns the field's value at     *)
(* that moment.  (A read of a string or slice header that overlaps its     *)
(* write may also tear; the model keeps to whole fields.)  ID is written   *)
(* only before the pointer is published, so it is read with Title.         *)
(***************************************************************************)
MarshalTitle(r) ==
    /\ req[r].pc = "marshal_title"
    /\ req' = [req EXCEPT ![r].pc = "marshal_description",
                          ![r].buf = [@ EXCEPT !.ID = heap[req[r].todo].ID,
                                               !.Title = heap[req[r].todo].Title]]
    /\ UNCHANGED <<todos, heap, nextID, writer, readers, clock, disk, nreq,
                   issued, deleted, createReturned, versions, saved,
                   created, disturbed>>

MarshalDescription(r) ==
    /\ req[r].pc = "marshal_description"
    /\ req' = [req EXCEPT ![r].pc = "marshal_completed",
                          ![r].buf = [@ EXCEPT !.Description =
                                                 heap[req[r].todo].Description]]
    /\ UNCHANGED <<todos, heap, nextID, writer, readers, clock, disk, nreq,
                   issued, deleted, createReturned, versions, saved,
                   created, disturbed>>

MarshalCompleted(r) ==
    /\ req[r].pc = "marshal_completed"
    /\ req' = [req EXCEPT ![r].pc = "marshal_images",
                          ![r].buf = [@ EXCEPT !.Completed =
                                                 heap[req[r].todo].Completed]]
    /\ UNCHANGED <<todos, heap, nextID, writer, readers, clock, disk, nreq,
                   issued, deleted, createReturned, versions, saved,
                   created, disturbed>>

MarshalImages(r) ==
    /\ req[r].pc = "marshal_images"
    /\ req' = [req EXCEPT ![r].pc = "marshal_subtasks",
                          ![r].buf = [@ EXCEPT !.Images =
                                                 heap[req[r].todo].Images]]
    /\ UNCHANGED <<todos, heap, nextID, writer, readers, clock, disk, nreq,
                   issued, deleted, createReturned, versions, saved,
                   created, disturbed>>

\* The status a handler sets once json.Marshal succeeded.
SuccessStatus(op) == IF op = "POST" THEN StatusCreated ELSE StatusOK

\* An Update or Delete of id is being served.
InFlightOn(id) ==
    \E q \in Slots :
        /\ req[q].op \in {"PUT", "DELETE"}
        /\ req[q].pc \notin {"idle", "responded"}
        /\ req[q].id = id

\* The last field is read, and the handler sets content type, status and body.
MarshalSubtasks(r) ==
    /\ req[r].pc = "marshal_subtasks"
    /\ LET t == [req[r].buf EXCEPT !.Subtasks = heap[req[r].todo].Subtasks]
       IN  req' = [req EXCEPT ![r].pc = "responded", ![r].buf = t,
                              ![r].status = SuccessStatus(req[r].op),
                              ![r].body = MarshalTodo(t)]
    /\ createReturned' = IF req[r].op = "POST"
                         THEN createReturned \cup {req[r].id}
                         ELSE createReturned
    /\ created' = IF req[r].op = "POST"
                  THEN [k \in DOMAIN created \cup {req[r].id} |->
                          IF k = req[r].id THEN req'[r].body ELSE created[k]]
                  ELSE created
    /\ disturbed' = IF req[r].op = "POST" /\ InFlightOn(req[r].id)
                    THEN disturbed \cup {[id |-> req[r].id,
                                          after |-> "response"]}
                    ELSE disturbed
    /\ UNCHANGED <<todos, heap, nextID, writer, readers, clock, disk, nreq,
                   issued, deleted, versions, saved>>

(***************************************************************************)
(* getTodos: GET /todos.                                                   *)
(***************************************************************************)
GetTodosRLock(r) ==
    /\ req[r].pc = "list_rlock"
    /\ CanRLock
    /\ readers' = readers \cup {r}
    /\ req' = [req EXCEPT ![r].pc = "list_body"]
    /\ UNCHANGED <<todos, heap, nextID, writer, clock, disk, nreq,
                   issued, deleted, createReturned, versions, saved,
                   created, disturbed>>

\* The orders in which a range over a map with key set S may visit it.
RangeOrders(S) ==
    { o \in [1..Cardinality(S) -> S] :
        \A i, j \in 1..Cardinality(S) : o[i] = o[j] => i = j }

\* The copies are made and encoded under the read lock, which the deferred
\* RUnlock releases on return.  (With no todo the nil slice encodes as null.)
GetTodosBody(r) ==
    /\ req[r].pc = "list_body"
    /\ \E o \in RangeOrders(DOMAIN todos) :
         req' = [req EXCEPT ![r].pc = "responded", ![r].status = StatusOK,
                            ![r].list = [i \in 1..Len(o) |->
                                           MarshalTodo(heap[todos[o[i]]])]]
    /\ readers' = readers \ {r}
    /\ UNCHANGED <<todos, heap, nextID, writer, clock, disk, nreq,
                   issued, deleted, createReturned, versions, saved,
                   created, disturbed>>

(***************************************************************************)
(* getTodo: GET /todos/{id}.                                               *)
(***************************************************************************)
\* mu.RLock(); todo, ok := todos[id]; mu.RUnlock(); if !ok { 404 }.
GetTodoLookup(r) ==
    /\ req[r].pc = "get_lookup"
    /\ CanRLock
    /\ IF req[r].id \in DOMAIN todos
       THEN req' = [req EXCEPT ![r].pc = "marshal_title",
                               ![r].todo = todos[req[r].id]]
       ELSE Fail(r, StatusNotFound, "Todo not found")
    /\ UNCHANGED <<todos, heap, nextID, writer, readers, clock, disk, nreq,
                   issued, deleted, createReturned, versions, saved,
                   created, disturbed>>

(***************************************************************************)
(* saveUploadedFile.                                                       *)
(***************************************************************************)
\* The values the next time.Now().UnixNano() may return: the clock does not
\* go back, and two reads may return the same value.
ClockReads == { t \in {clock, clock + 1} : t <= MaxClock }

\* What saveUploadedFile may do.  "open": fileHeader.Open() fails.
\* "create": os.Create fails.  "copy": io.Copy fails after os.Create made
\* the file.  "ok": the file is written and its path returned.
SaveOutcomes == {"ok", "open", "create", "copy"}

\* An upload loop with no return after ctx.Error: the failed file's empty
\* path is appended and the loop goes on.
SaveNext_NoReturn(r, lockpc) ==
    LET k == Len(req[r].images) + 1
        name == req[r].form.File[k]
    IN  \E outcome \in SaveOutcomes, t \in ClockReads :
          LET path == FilePath(t, name) IN
          /\ clock' = IF outcome = "open" THEN clock ELSE t
          /\ outcome = "open" => t = clock
          /\ disk' = IF outcome \in {"ok", "copy"} THEN disk \cup {path}
                     ELSE disk
          /\ saved' = IF outcome = "ok" THEN saved \cup {path} ELSE saved
          /\ req' = [req EXCEPT
                       ![r].images = Append(@, path),
                       ![r].saves = @ + 1,
                       ![r].saveFailed = @ \/ outcome # "ok",
                       ![r].pc = IF k = Len(req[r].form.File)
                                 THEN lockpc ELSE @]

\* The step of the upload loop of request r that saves the next file of the
\* form; lockpc is where the handler goes on after the last file.
SaveNext(r, lockpc) ==
    LET k == Len(req[r].images) + 1
        name == req[r].form.File[k]
    IN  \E outcome \in SaveOutcomes, t \in ClockReads :
          LET path == FilePath(t, name) IN
          /\ clock' = IF outcome = "open" THEN clock ELSE t
          /\ outcome = "open" => t = clock
          /\ disk' = IF outcome \in {"ok", "copy"} THEN disk \cup {path}
                     ELSE disk
          /\ saved' = IF outcome = "ok" THEN saved \cup {path} ELSE saved
          /\ IF outcome = "ok"
             THEN req' = [req EXCEPT
                            ![r].images = Append(@, path),
                            ![r].saves = @ + 1,
                            ![r].pc = IF k = Len(req[r].form.File)
                                      THEN lockpc ELSE @]
             ELSE req' = [req EXCEPT
                            ![r].pc = "responded",
                            ![r].status = StatusInternalServerError,
                            ![r].msg = outcome,
                            ![r].saves = @ + 1,
                            ![r].saveFailed = TRUE]

\* Where a handler goes once its text fields are read: to the upload loop if
\* the form has files, else to the exclusive section.
AfterFields(form, savepc, lockpc) ==
    IF Len(form.File) > 0 THEN savepc ELSE lockpc

\* A text field that counts as given only if its value is not empty.
FormValue_NonEmpty(form, key, default) ==
    IF key \in DOMAIN form.Value /\ form.Value[key] # ""
    THEN form.Value[key] ELSE default

\* A text field of the form: vals[0] if the key is there, else the default.
FormValue(form, key, default) ==
    IF key \in DOMAIN form.Value THEN form.Value[key] ELSE default

(***************************************************************************)
(* createTodo: POST /todos.                                                *)
(***************************************************************************)
\* The form is parsed, the text fields read and the subtasks decoded.
CreateParse(r) ==
    /\ req[r].pc = "create_parse"
    /\ LET form == req[r].form
           subtasksStr == FormValue(form, "subtasks", "")
           dec == Unmarshal(subtasksStr)
       IN  IF ~form.ok
           THEN Fail(r, StatusBadRequest, "malformed form")
           ELSE IF subtasksStr # "" /\ dec.err
           THEN Fail(r, StatusBadRequest, "Invalid subtasks format")
           ELSE req' = [req EXCEPT
                          ![r].title = FormValue(form, "title", ""),
                          ![r].description = FormValue(form, "description", ""),
                          ![r].subtasks = IF subtasksStr # "" THEN dec.val
                                          ELSE <<>>,
                          ![r].pc = AfterFields(form, "create_save",
                                                "create_lock")]
    /\ UNCHANGED <<todos, heap, nextID, writer, readers, clock, disk, nreq,
                   issued, deleted, createReturned, versions, saved,
                   created, disturbed>>

CreateSave(r) ==
    /\ req[r].pc = "create_save"
    /\ SaveNext(r, "create_lock")
    /\ UNCHANGED <<todos, heap, nextID, writer, readers, nreq,
                   issued, deleted, createReturned, versions, created,
                   disturbed>>

\* completed := checkAllSubtasksCompleted(subtasks); mu.Lock().
CreateLock(r) ==
    /\ req[r].pc = "create_lock"
    /\ CanLock
    /\ writer' = r
    /\ req' = [req EXCEPT ![r].pc = "create_id",
                          ![r].completed =
                              checkAllSubtasksCompleted(req[r].subtasks)]
    /\ UNCHANGED <<todos, heap, nextID, readers, clock, disk, nreq,
                   issued, deleted, createReturned, versions, saved,
                   created, disturbed>>

\* An id taken from the size of the map instead of the counter.
ReadNextID_FromLen == Cardinality(DOMAIN todos) + 1

\* The value id := nextID reads.
ReadNextID == nextID

CreateReadID(r) ==
    /\ req[r].pc = "create_id"
    /\ req' = [req EXCEPT ![r].pc = "create_incr", ![r].id = ReadNextID]
    /\ UNCHANGED <<todos, heap, nextID, writer, readers, clock, disk, nreq,
                   issued, deleted, createReturned, versions, saved,
                   created, disturbed>>

\* nextID++
CreateIncr(r) ==
    /\ req[r].pc = "create_incr"
    /\ nextID' = nextID + 1
    /\ req' = [req EXCEPT ![r].pc = "create_store", ![r].wrote = TRUE]
    /\ UNCHANGED <<todos, heap, writer, readers, clock, disk, nreq,
                   issued, deleted, createReturned, versions, saved,
                   created, disturbed>>

\* The map m with key k set to v.
MapSet(m, k, v) ==
    [x \in DOMAIN m \cup {k} |-> IF x = k THEN v ELSE m[x]]

\* A store under the counter's value after the increment: todos[nextID].
CreateStore_KeyNextID(r) ==
    /\ req[r].pc = "create_store"
    /\ heap' = Append(heap, [ID |-> req[r].id,
                             Title |-> req[r].title,
                             Description |-> req[r].description,
                             Completed |-> req[r].completed,
                             Images |-> req[r].images,
                             Subtasks |-> req[r].subtasks])
    /\ todos' = MapSet(todos, nextID, Len(heap) + 1)
    /\ req' = [req EXCEPT ![r].pc = "create_unlock", ![r].wrote = TRUE,
                          ![r].todo = Len(heap) + 1]
    /\ UNCHANGED <<nextID, writer, readers, clock, disk, nreq, issued,
                   deleted, createReturned, versions, saved,
                   created, disturbed>>

\* newTodo := &Todo{...}; todos[id] = newTodo.
CreateStore(r) ==
    /\ req[r].pc = "create_store"
    /\ heap' = Append(heap, [ID |-> req[r].id,
                             Title |-> req[r].title,
                             Description |-> req[r].description,
                             Completed |-> req[r].completed,
                             Images |-> req[r].images,
                             Subtasks |-> req[r].subtasks])
    /\ todos' = MapSet(todos, req[r].id, Len(heap) + 1)
    /\ req' = [req EXCEPT ![r].pc = "create_unlock", ![r].wrote = TRUE,
                          ![r].todo = Len(heap) + 1]
    /\ UNCHANGED <<nextID, writer, readers, clock, disk, nreq, issued,
                   deleted, createReturned, versions, saved,
                   created, disturbed>>

\* mu.Unlock(): the Create has passed through the exclusive section.
CreateUnlock(r) ==
    /\ req[r].pc = "create_unlock"
    /\ writer' = Nil
    /\ issued' = Append(issued, req[r].id)
    /\ versions' = versions \cup {heap[req[r].todo]}
    /\ disturbed' = IF InFlightOn(req[r].id)
                    THEN disturbed \cup {[id |-> req[r].id,
                                          after |-> "commit"]}
                    ELSE disturbed
    /\ req' = [req EXCEPT ![r].pc = "marshal_title"]
    /\ UNCHANGED <<todos, heap, nextID, readers, clock, disk, nreq, deleted,
                   createReturned, saved, created>>

(***************************************************************************)
(* updateTodo: PUT /todos/{id}.                                            *)
(***************************************************************************)
\* An existence check whose read lock is kept when the todo is found.
UpdateCheck_KeepRLock(r) ==
    /\ req[r].pc = "update_check"
    /\ CanRLock
    /\ IF req[r].id \notin DOMAIN todos
       THEN Fail(r, StatusNotFound, "Todo not found") /\ UNCHANGED readers
       ELSE /\ readers' = readers \cup {r}
            /\ IF ~req[r].form.ok
               THEN Fail(r, StatusBadRequest, "malformed form")
               ELSE req' = [req EXCEPT ![r].pc = "update_title",
                                       ![r].todo = todos[req[r].id]]
    /\ UNCHANGED <<todos, heap, nextID, writer, clock, disk, nreq,
                   issued, deleted, createReturned, versions, saved,
                   created, disturbed>>

\* The existence check under the read lock, then the form is parsed.
UpdateCheck(r) ==
    /\ req[r].pc = "update_check"
    /\ CanRLock
    /\ IF req[r].id \notin DOMAIN todos
       THEN Fail(r, StatusNotFound, "Todo not found")
       ELSE IF ~req[r].form.ok
       THEN Fail(r, StatusBadRequest, "malformed form")
       ELSE req' = [req EXCEPT ![r].pc = "update_title",
                               ![r].todo = todos[req[r].id]]
    /\ UNCHANGED <<todos, heap, nextID, writer, readers, clock, disk, nreq,
                   issued, deleted, createReturned, versions, saved,
                   created, disturbed>>

\* title := todo.Title, read with no lock held, unless the form has a title.
UpdateTitle(r) ==
    /\ req[r].pc = "update_title"
    /\ req' = [req EXCEPT
                 ![r].pc = "update_description",
                 ![r].seenTitle = heap[req[r].todo].Title,
                 ![r].title = FormValue(req[r].form, "title",
                                        heap[req[r].todo].Title)]
    /\ UNCHANGED <<todos, heap, nextID, writer, readers, clock, disk, nreq,
                   issued, deleted, createReturned, versions, saved,
                   created, disturbed>>

\* description := todo.Description, likewise; then the subtasks are decoded.
UpdateDescription(r) ==
    /\ req[r].pc = "update_description"
    /\ LET form == req[r].form
           subtasksStr == FormValue(form, "subtasks", "")
           dec == Unmarshal(subtasksStr)
       IN  IF subtasksStr # "" /\ dec.err
           THEN Fail(r, StatusBadRequest, "Invalid subtasks format")
           ELSE req' = [req EXCEPT
                          ![r].seenDescription = heap[req[r].todo].Description,
                          ![r].description =
                              FormValue(form, "description",
                                        heap[req[r].todo].Description),
                          ![r].subtasks = IF subtasksStr # "" THEN dec.val
                                          ELSE <<>>,
                          ![r].pc = AfterFields(form, "update_save",
                                                "update_lock")]
    /\ UNCHANGED <<todos, heap, nextID, writer, readers, clock, disk, nreq,
                   issued, deleted, createReturned, versions, saved,
                   created, disturbed>>

UpdateSave(r) ==
    /\ req[r].pc = "update_save"
    /\ SaveNext(r, "update_lock")
    /\ UNCHANGED <<todos, heap, nextID, writer, readers, nreq,
                   issued, deleted, createReturned, versions, created,
                   disturbed>>

\* mu.Lock(), with no second look at the map.
UpdateLock(r) ==
    /\ req[r].pc = "update_lock"
    /\ CanLock
    /\ writer' = r
    /\ req' = [req EXCEPT ![r].pc = "write_title",
                          ![r].absentAtWrite =
                              (req[r].id \notin DOMAIN todos)]
    /\ UNCHANGED <<todos, heap, nextID, readers, clock, disk, nreq,
                   issued, deleted, createReturned, versions, saved,
                   created, disturbed>>

\* One assignment to a field of *todo, and the place the handler goes to.
WriteField(r, t, pc) ==
    /\ heap' = [heap EXCEPT ![req[r].todo] = t]
    /\ req' = [req EXCEPT ![r].pc = pc, ![r].wrote = TRUE]

UpdateWriteTitle(r) ==
    /\ req[r].pc = "write_title"
    /\ WriteField(r, [heap[req[r].todo] EXCEPT !.Title = req[r].title],
                  "write_description")
    /\ UNCHANGED <<todos, nextID, writer, readers, clock, disk, nreq,
                   issued, deleted, createReturned, versions, saved,
                   created, disturbed>>

UpdateWriteDescription(r) ==
    /\ req[r].pc = "write_description"
    /\ WriteField(r, [heap[req[r].todo] EXCEPT
                        !.Description = req[r].description],
                  "write_subtasks")
    /\ UNCHANGED <<todos, nextID, writer, readers, clock, disk, nreq,
                   issued, deleted, createReturned, versions, saved,
                   created, disturbed>>

\* An Update that keeps the old subtasks when it has none to store.
UpdateWriteSubtasks_KeepIfEmpty(r) ==
    /\ req[r].pc = "write_subtasks"
    /\ WriteField(r, [heap[req[r].todo] EXCEPT
                        !.Subtasks = IF Len(req[r].subtasks) = 0 THEN @
                                     ELSE req[r].subtasks],
                  "write_images")
    /\ UNCHANGED <<todos, nextID, writer, readers, clock, disk, nreq,
                   issued, deleted, createReturned, versions, saved,
                   created, disturbed>>

UpdateWriteSubtasks(r) ==
    /\ req[r].pc = "write_subtasks"
    /\ WriteField(r, [heap[req[r].todo] EXCEPT !.Subtasks = req[r].subtasks],
                  "write_images")
    /\ UNCHANGED <<todos, nextID, writer, readers, clock, disk, nreq,
                   issued, deleted, createReturned, versions, saved,
                   created, disturbed>>

\* An Update that adds the new images to the old ones.
UpdateWriteImages_Merge(r) ==
    /\ req[r].pc = "write_images"
    /\ WriteField(r, [heap[req[r].todo] EXCEPT
                        !.Images = @ \o req[r].images],
                  "write_completed")
    /\ UNCHANGED <<todos, nextID, writer, readers, clock, disk, nreq,
                   issued, deleted, createReturned, versions, saved,
                   created, disturbed>>

UpdateWriteImages(r) ==
    /\ req[r].pc = "write_images"
    /\ WriteField(r, [heap[req[r].todo] EXCEPT !.Images = req[r].images],
                  "write_completed")
    /\ UNCHANGED <<todos, nextID, writer, readers, clock, disk, nreq,
                   issued, deleted, createReturned, versions, saved,
                   created, disturbed>>

\* todo.Completed = checkAllSubtasksCompleted(subtasks); mu.Unlock().
UpdateWriteCompleted(r) ==
    /\ req[r].pc = "write_completed"
    /\ WriteField(r, [heap[req[r].todo] EXCEPT
                        !.Completed =
                            checkAllSubtasksCompleted(req[r].subtasks)],
                  "marshal_title")
    /\ writer' = Nil
    /\ versions' = versions \cup {heap'[req[r].todo]}
    /\ UNCHANGED <<todos, nextID, readers, clock, disk, nreq,
                   issued, deleted, createReturned, saved, created,
                   disturbed>>

(***************************************************************************)
(* deleteTodo: DELETE /todos/{id}.                                         *)
(***************************************************************************)
\* A delete that leaves the map as it is.
MapDelete_Noop(m, k) == m

\* delete(m, k)
MapDelete(m, k) == [x \in DOMAIN m \ {k} |-> m[x]]

DeleteLock(r) ==
    /\ req[r].pc = "delete_lock"
    /\ CanLock
    /\ writer' = r
    /\ req' = [req EXCEPT ![r].pc = "delete_body"]
    /\ UNCHANGED <<todos, heap, nextID, readers, clock, disk, nreq,
                   issued, deleted, createReturned, versions, saved,
                   created, disturbed>>

\* The check, delete(todos, id) and the status; the deferred Unlock.
DeleteBody(r) ==
    /\ req[r].pc = "delete_body"
    /\ IF req[r].id \notin DOMAIN todos
       THEN /\ Fail(r, StatusNotFound, "Todo not found")
            /\ UNCHANGED <<todos, deleted>>
       ELSE /\ todos' = MapDelete(todos, req[r].id)
            /\ deleted' = deleted \cup {req[r].id}
            /\ req' = [req EXCEPT ![r].pc = "responded", ![r].wrote = TRUE,
                                  ![r].status = StatusNoContent]
    /\ writer' = Nil
    /\ UNCHANGED <<heap, nextID, readers, clock, disk, nreq, issued,
                   createReturned, versions, saved,
                   created, disturbed>>

(***************************************************************************)
(* The server.                                                             *)
(***************************************************************************)
\* requestHandler's dispatch of a request whose form, if any, is in F.
Route(r, F) ==
    \/ RouteGetTodos(r)
    \/ RouteGetTodo(r)
    \/ RouteCreateTodo(r, F)
    \/ RouteUpdateTodo(r, F)
    \/ RouteDeleteTodo(r)

\* The steps of the handlers, but for the upload loops.
Handle(r) ==
    \/ GetTodosRLock(r)
    \/ GetTodosBody(r)
    \/ GetTodoLookup(r)
    \/ MarshalTitle(r)
    \/ MarshalDescription(r)
    \/ MarshalCompleted(r)
    \/ MarshalImages(r)
    \/ MarshalSubtasks(r)
    \/ CreateParse(r)
    \/ CreateLock(r)
    \/ CreateReadID(r)
    \/ CreateIncr(r)
    \/ CreateStore(r)
    \/ CreateUnlock(r)
    \/ UpdateCheck(r)
    \/ UpdateTitle(r)
    \/ UpdateDescription(r)
    \/ UpdateLock(r)
    \/ UpdateWriteTitle(r)
    \/ UpdateWriteDescription(r)
    \/ UpdateWriteSubtasks(r)
    \/ UpdateWriteImages(r)
    \/ UpdateWriteCompleted(r)
    \/ DeleteLock(r)
    \/ DeleteBody(r)
    \/ Return(r)

\* The upload loops.
Save(r) ==
    \/ CreateSave(r)
    \/ UpdateSave(r)

\* The server with clients that send any of the forms.
Next == \E r \in Slots : Route(r, Forms) \/ Handle(r) \/ Save(r)

Spec == Init /\ [][Next]_vars

\* The server with clients that upload no file.
NextFields == \E r \in Slots : Route(r, FieldForms) \/ Handle(r)

SpecFields == Init /\ [][NextFields]_vars

\* The server with clients that send images only.
NextUploads == \E r \in Slots : Route(r, UploadForms) \/ Handle(r) \/ Save(r)

SpecUploads == Init /\ [][NextUploads]_vars

(***************************************************************************)
(* Properties.                                                             *)
(***************************************************************************)
\* The elements of a sequence.
Range(q) == { q[i] : i \in 1..Len(q) }

\* Request r has answered with status st.
Answered(r, op, st) ==
    req[r].op = op /\ req[r].pc = "responded" /\ req[r].status = st

\* The derivation rule as the specification states it.
DerivationRule(subtasks) ==
    Len(subtasks) > 0 /\ \A i \in 1..Len(subtasks) : subtasks[i].Completed

\* C1: the ids Creates return are pairwise distinct, the first id issued is
\* 1, and ids increase strictly in the order in which the Creates pass
\* through the exclusive section.
C1_IDsDistinctIncreasing ==
    /\ Len(issued) > 0 => issued[1] = 1
    /\ \A i, j \in 1..Len(issued) : i < j => issued[i] < issued[j]
    /\ \A r \in Slots :
         Answered(r, "POST", StatusCreated) =>
           /\ "id" \in DOMAIN req[r].body
           /\ req[r].body.id = req[r].id
           /\ req[r].body.id \in Range(issued)
    /\ \A r, q \in Slots :
         (r # q /\ Answered(r, "POST", StatusCreated)
                /\ Answered(q, "POST", StatusCreated))
           => req[r].body.id # req[q].body.id

\* Two Creates that ran at the same time have both answered.
C1_Witness ==
    \E r, q \in Slots :
        /\ r # q
        /\ Answered(r, "POST", StatusCreated)
        /\ Answered(q, "POST", StatusCreated)

\* C2: nextID never decreases, no step of a Delete changes it, and a key a
\* Create adds to the map is no id that was deleted before.
C2_DeletedIDNotReissued ==
    [][ /\ nextID' >= nextID
        /\ (\E r \in Slots : DeleteLock(r) \/ DeleteBody(r))
             => nextID' = nextID
        /\ \A r \in Slots :
             CreateStore(r) => /\ req[r].id \notin deleted
                               /\ req[r].id \notin Range(issued) ]_vars

\* A Create that started after a Delete had answered 204 has answered.
C2_Witness ==
    \E r \in Slots :
        Answered(r, "POST", StatusCreated) /\ req[r].delSeen # {}

\* C3: while no request holds the write lock, every stored todo has
\* completed = true exactly if it has a subtask and all its subtasks are
\* completed.
C3_CompletedDerived ==
    writer = Nil =>
      \A k \in DOMAIN todos :
        heap[todos[k]].Completed = DerivationRule(heap[todos[k]].Subtasks)

\* An Update has left a stored todo completed, with the lock free.
C3_Witness ==
    \E r \in Slots :
        /\ Answered(r, "PUT", StatusOK)
        /\ writer = Nil
        /\ req[r].id \in DOMAIN todos
        /\ todos[req[r].id] = req[r].todo
        /\ heap[req[r].todo].Completed
        /\ \E v \in versions : v.ID = req[r].id /\ ~v.Completed

\* C4: every todo in a response is one committed version of its record, so
\* its completed flag agrees with its subtasks.
C4_ResponsesAreCommittedVersions ==
    \A r \in Slots :
        /\ (Answered(r, "GET", StatusOK) \/ Answered(r, "PUT", StatusOK)
              \/ Answered(r, "POST", StatusCreated))
             => /\ \E v \in versions : req[r].body = MarshalTodo(v)
                /\ req[r].buf.Completed = DerivationRule(req[r].buf.Subtasks)
        /\ Answered(r, "LIST", StatusOK)
             => \A i \in 1..Len(req[r].list) :
                  \E v \in versions : req[r].list[i] = MarshalTodo(v)

\* C5: an Update answers 200 only if the record was in the map when the
\* Update took the write lock to write its values.
C5_UpdateSucceedsOnlyOnPresent ==
    \A r \in Slots :
        Answered(r, "PUT", StatusOK) => ~req[r].absentAtWrite

\* The value of a text field of an Update's form, or the empty string.
Supplied(r, key) ==
    IF key \in DOMAIN req[r].form.Value THEN req[r].form.Value[key] ELSE ""

\* C6 as claimed: an Update writes the supplied title if that is non-empty
\* and otherwise leaves the title the record had; likewise the description.
C6_EmptyTextKeepsValue ==
    [][ \A r \in Slots :
          /\ UpdateWriteTitle(r) =>
               heap'[req[r].todo].Title =
                 IF Supplied(r, "title") # "" THEN Supplied(r, "title")
                 ELSE heap[req[r].todo].Title
          /\ UpdateWriteDescription(r) =>
               heap'[req[r].todo].Description =
                 IF Supplied(r, "description") # ""
                 THEN Supplied(r, "description")
                 ELSE heap[req[r].todo].Description ]_vars

\* C6, amended: an Update writes the value of the form's title field if the
\* form has one, the empty string included, and otherwise the title it read
\* from the record after its existence check; likewise the description.
C6_PresentTextReplaces ==
    [][ \A r \in Slots :
          /\ UpdateWriteTitle(r) =>
               heap'[req[r].todo].Title =
                 IF "title" \in DOMAIN req[r].form.Value
                 THEN req[r].form.Value["title"]
                 ELSE req[r].seenTitle
          /\ UpdateWriteDescription(r) =>
               heap'[req[r].todo].Description =
                 IF "description" \in DOMAIN req[r].form.Value
                 THEN req[r].form.Value["description"]
                 ELSE req[r].seenDescription ]_vars

\* An Update whose title field is the empty string has emptied a title.
C6_Witness ==
    \E r \in Slots :
        /\ req[r].op = "PUT"
        /\ req[r].pc = "write_description"
        /\ "title" \in DOMAIN req[r].form.Value
        /\ req[r].form.Value["title"] = ""
        /\ req[r].seenTitle # ""
        /\ heap[req[r].todo].Title = ""

\* The subtasks the payloads of the model stand for, in input order.
PayloadSubtasks(text) ==
    CASE text = DoneJSON ->
           <<[ID |-> 0, Title |-> "go", Completed |-> TRUE]>>
      [] text = MixedJSON ->
           <<[ID |-> 7, Title |-> "", Completed |-> TRUE],
             [ID |-> 0, Title |-> "b", Completed |-> FALSE]>>
      [] OTHER -> <<>>

\* C7: when an Update commits, the record's subtasks are the sequence its
\* payload decodes to, the empty sequence if the payload is absent or
\* empty, and completed is false if that sequence is empty.
C7_SubtasksReplaced ==
    [][ \A r \in Slots :
          UpdateWriteCompleted(r) =>
            /\ heap'[req[r].todo].Subtasks =
                 PayloadSubtasks(Supplied(r, "subtasks"))
            /\ Supplied(r, "subtasks") = ""
                 => /\ heap'[req[r].todo].Subtasks = <<>>
                    /\ ~heap'[req[r].todo].Completed ]_vars

\* An Update with no subtasks has cleared a todo that was completed.
C7_Witness ==
    \E r \in Slots :
        /\ req[r].op = "PUT"
        /\ req[r].pc = "marshal_title"
        /\ Supplied(r, "subtasks") = ""
        /\ heap[req[r].todo].Subtasks = <<>>
        /\ ~heap[req[r].todo].Completed
        /\ \E v \in versions : v.ID = req[r].id /\ v.Completed

\* C8: when an Update commits, the record's images are the references of
\* the files of its form, one per file in the form's order, each naming a
\* saved file; with no file the list is empty.
C8_ImagesReplaced ==
    [][ \A r \in Slots :
          UpdateWriteCompleted(r) =>
            LET images == heap'[req[r].todo].Images
                files == req[r].form.File
            IN  /\ Len(images) = Len(files)
                /\ \A k \in 1..Len(files) :
                     /\ images[k].name = files[k]
                     /\ images[k] \in disk
                     /\ images[k] = req[r].images[k] ]_vars

\* An Update with no images field has cleared a list that had an image.
C8_Witness ==
    \E r \in Slots :
        /\ req[r].op = "PUT"
        /\ req[r].pc = "marshal_title"
        /\ req[r].form.File = <<>>
        /\ heap[req[r].todo].Images = <<>>
        /\ \E v \in versions : v.ID = req[r].id /\ Len(v.Images) > 0

\* The ids of the todos of a List response.
ListIDs(r) == { req[r].list[i].id : i \in 1..Len(req[r].list) }

\* C9: an id whose Delete has answered 204 is no key of the map again, a
\* Get of it that started afterwards answers 404, and a List that started
\* afterwards does not hold it.
C9_DeletedStaysGone ==
    /\ \A i \in deleted : i \notin DOMAIN todos
    /\ \A r \in Slots :
         /\ (req[r].op = "GET" /\ req[r].pc = "responded"
               /\ req[r].id \in req[r].delSeen)
              => req[r].status = StatusNotFound
         /\ Answered(r, "LIST", StatusOK)
              => ListIDs(r) \cap req[r].delSeen = {}

\* A Get that started after the Delete of its id answered has answered.
C9_Witness ==
    \E r \in Slots :
        /\ Answered(r, "GET", StatusNotFound)
        /\ req[r].id \in req[r].delSeen

\* C10 as claimed: a Get or List response holds only todos whose Create
\* has produced its response.
C10_VisibleOnlyAfterCreateReturned ==
    \A r \in Slots :
        /\ Answered(r, "GET", StatusOK) => req[r].body.id \in createReturned
        /\ Answered(r, "LIST", StatusOK) => ListIDs(r) \subseteq createReturned

\* C10, amended: a Get or List response holds only todos whose Create has
\* stored the record and left its exclusive section.
C10_VisibleOnlyAfterCommit ==
    \A r \in Slots :
        /\ Answered(r, "GET", StatusOK) => req[r].body.id \in Range(issued)
        /\ Answered(r, "LIST", StatusOK) => ListIDs(r) \subseteq Range(issued)

\* A Get has answered with a todo whose Create has not answered yet.
C10_Witness ==
    \E r \in Slots :
        /\ Answered(r, "GET", StatusOK)
        /\ req[r].body.id \in Range(issued)
        /\ req[r].body.id \notin createReturned

(***************************************************************************)
(* C11.  A failed file save ends the request with 500 and leaves the store *)
(* alone; the files saved before it stay.                                  *)
(***************************************************************************)
\* C11: a Create or Update one of whose saveUploadedFile calls failed has
\* responded 500 at once, has written nothing to todos, to a stored Todo or
\* to nextID, and every file of its batch saved before the failure is still
\* in the uploads directory.
C11_FailedSaveLeavesStore ==
    \A r \in Slots :
        req[r].saveFailed =>
            /\ req[r].op \in {"POST", "PUT"}
            /\ req[r].pc = "responded"
            /\ req[r].status = StatusInternalServerError
            /\ ~req[r].wrote
            /\ Len(req[r].images) = req[r].saves - 1
            /\ Range(req[r].images) \subseteq disk

\* An Update of a stored todo saved its first file and failed on the second.
C11_Witness ==
    \E r \in Slots :
        /\ req[r].op = "PUT"
        /\ req[r].saveFailed
        /\ req[r].id \in DOMAIN todos
        /\ Len(req[r].images) = 1
        /\ req[r].images[1] \in disk

(***************************************************************************)
(* C12.  A subtasks text that does not decode is answered 400 and nothing  *)
(* is stored.                                                              *)
(***************************************************************************)
\* The subtasks texts that are not empty and do not decode to []Subtask.
Undecodable == {BadJSON, TypeErrJSON}

C13_SavedReferencesDistinct ==
    [][ \A r \in Slots :
          Len(req'[r].images) = Len(req[r].images) + 1 =>
              req'[r].images[Len(req'[r].images)] \notin saved ]_vars

(***************************************************************************)
(* C14.  Create, then Get.                                                 *)
(***************************************************************************)
\* C14: a Get of an id that started after the Create of that id had
\* responded, with no Update or Delete of the id in flight at or after that
\* response, answers 200 with a todo equal in every field to the one the
\* Create responded with.
C14_CreateThenGetRoundTrip ==
    \A r \in Slots :
        ( /\ req[r].op = "GET"
          /\ req[r].pc = "responded"
          /\ req[r].id \in req[r].returnedSeen
          /\ [id |-> req[r].id, after |-> "response"] \notin disturbed )
        => /\ req[r].status = StatusOK
           /\ req[r].body = created[req[r].id]

\* C14, amended: the same with no Update or Delete of the id in flight at or
\* after the moment the Create left its exclusive section.
C14_CreateThenGetSinceCommit ==
    \A r \in Slots :
        ( /\ req[r].op = "GET"
          /\ req[r].pc = "responded"
          /\ req[r].id \in req[r].returnedSeen
          /\ \A d \in disturbed : d.id # req[r].id )
        => /\ req[r].status = StatusOK
           /\ req[r].body = created[req[r].id]

\* Such a Get has answered, with a second Create interleaved.
C14_Witness ==
    \E r \in Slots :
        /\ Answered(r, "GET", StatusOK)
        /\ req[r].id \in req[r].returnedSeen
        /\ \A d \in disturbed : d.id # req[r].id
        /\ req[r].body = created[req[r].id]
        /\ Len(issued) = 2

(***************************************************************************)
(* C15.  The list is a snapshot.                                           *)
(***************************************************************************)
\* C15: at the step at which a List builds its response, between its start
\* and its return, the response holds one element per key of todos, each the
\* encoding of the record stored under that key at this instant, and each a
\* value the record had when a writer released the lock; so it holds every
\* id stored before the List started and not deleted by now, and no id
\* deleted before the List started.
C15_ListIsSnapshot ==
    [][ \A r \in Slots :
          (req[r].op = "LIST" /\ req[r].pc # "responded"
                              /\ req'[r].pc = "responded") =>
              LET list == req'[r].list
                  ids == { list[i].id : i \in 1..Len(list) }
              IN  /\ req'[r].status = StatusOK
                  /\ Len(list) = Cardinality(DOMAIN todos)
                  /\ ids = DOMAIN todos
                  /\ \A i \in 1..Len(list) :
                        /\ list[i] = MarshalTodo(heap[todos[list[i].id]])
                        /\ heap[todos[list[i].id]] \in versions
                  /\ todos' = todos /\ heap' = heap
                  /\ (req[r].issuedSeen \ deleted) \subseteq ids
                  /\ ids \cap req[r].delSeen = {} ]_vars

\* A List has answered with a todo in it while a writer was waiting for the
\* lock.
C15_Witness ==
    \E r, q \in Slots :
        /\ Answered(r, "LIST", StatusOK)
        /\ Len(req[r].list) >= 1
        /\ req[r].issuedSeen # {}
        /\ req[q].pc \in {"create_lock", "update_lock", "delete_lock"}

(***************************************************************************)
(* C16.  Updates of one todo, one after the other.                         *)
(***************************************************************************)
\* C16: an Update takes effect as a whole on the record as it is when the
\* Update holds the write lock: if its form has no title field, its write
\* leaves the title the record has by then, whatever another Update stored
\* there in the meantime; likewise the description.
C16_UpdatesSerializable ==
    [][ \A r \in Slots :
          /\ (UpdateWriteTitle(r)
                /\ "title" \notin DOMAIN req[r].form.Value) =>
               heap'[req[r].todo].Title = heap[req[r].todo].Title
          /\ (UpdateWriteDescription(r)
                /\ "description" \notin DOMAIN req[r].form.Value) =>
               heap'[req[r].todo].Description =
                   heap[req[r].todo].Description ]_vars

(***************************************************************************)
(* C17.  Files are saved with no lock held.                                *)
(***************************************************************************)
\* C17: a request that makes a saveUploadedFile call holds the lock in
\* neither mode, and a Create or Update that holds the exclusive lock has
\* made the call for every file of its form before.
C17_NoSaveUnderLock ==
    [][ \A r \in Slots :
          /\ req'[r].saves = req[r].saves + 1 =>
                /\ writer # r /\ r \notin readers
                /\ writer' # r /\ r \notin readers'
          /\ (writer' = r /\ req'[r].op \in {"POST", "PUT"}) =>
                req'[r].saves = Len(req'[r].form.File) ]_vars

\* An Update holds the exclusive lock with the two files of its form saved.
C17_Witness ==
    \E r \in Slots :
        /\ writer = r
        /\ req[r].op = "PUT"
        /\ req[r].saves = 2
        /\ Len(req[r].images) = 2

(***************************************************************************)
(* C18.  Delete removes one record and nothing else.                       *)
(***************************************************************************)
\* C18: a Delete of a stored id answers 204 and removes that key alone,
\* every other key keeping its record with all its fields, and nextID its
\* value; a Delete of an id that is not stored answers 404 and changes
\* neither; an id is deleted with 204 once only, so of two Deletes of an id
\* that was stored when both started, both answered, not both have 204 and
\* the id is gone.
C18_DeleteRemovesOnlyTarget ==
    [][ \A r \in Slots :
          /\ (req[r].op = "DELETE" /\ req[r].pc # "responded"
                                   /\ req'[r].pc = "responded") =>
                /\ heap' = heap /\ nextID' = nextID
                /\ IF req[r].id \in DOMAIN todos
                   THEN /\ req'[r].status = StatusNoContent
                        /\ req[r].id \notin deleted
                        /\ DOMAIN todos' = DOMAIN todos \ {req[r].id}
                        /\ \A k \in DOMAIN todos' : todos'[k] = todos[k]
                   ELSE /\ req'[r].status = StatusNotFound
                        /\ todos' = todos
          /\ \A q \in Slots \ {r} :
                ( /\ req'[r].op = "DELETE" /\ req'[q].op = "DELETE"
                  /\ req'[r].id = req'[q].id
                  /\ req'[r].pc = "responded" /\ req'[q].pc = "responded"
                  /\ req'[r].id \in req'[r].issuedSeen \ req'[r].delSeen
                  /\ req'[q].id \in req'[q].issuedSeen \ req'[q].delSeen )
                => /\ {req'[r].status, req'[q].status}
                        \subseteq {StatusNoContent, StatusNotFound}
                   /\ ~(req'[r].status = StatusNoContent
                          /\ req'[q].status = StatusNoContent)
                   /\ req'[r].id \in deleted'
                   /\ req'[r].id \notin DOMAIN todos' ]_vars

\* Two Deletes of an id that was stored when both started have answered, one
\* with 204 and one with 404.
C18_Witness ==
    \E r, q \in Slots :
        /\ Answered(r, "DELETE", StatusNoContent)
        /\ Answered(q, "DELETE", StatusNotFound)
        /\ req[r].id = req[q].id
        /\ req[r].id \in req[r].issuedSeen \ req[r].delSeen
        /\ req[q].id \in req[q].issuedSeen \ req[q].delSeen

(***************************************************************************)
(* C19.  A request rejected with 404 or 400 has saved no file.             *)
(***************************************************************************)
\* C19: a Create or Update whose subtasks text does not decode, and any
\* request answered 404 or 400, has made no saveUploadedFile call; and an
\* Update whose id is not stored when it is looked up answers 404 at that
\* step, whatever its form holds, so that 404 comes before 400.
C19_RejectedBeforeAnySave ==
    [][ \A r \in Slots :
          /\ ( \/ req'[r].status \in {StatusNotFound, StatusBadRequest}
               \/ /\ req'[r].op \in {"POST", "PUT"}
                  /\ "subtasks" \in DOMAIN req'[r].form.Value
                  /\ req'[r].form.Value["subtasks"] \in Undecodable )
             => /\ req'[r].saves = 0
                /\ req'[r].images = <<>>
          /\ (req[r].op = "PUT" /\ req[r].pc = "update_check"
                /\ req'[r].pc # "update_check"
                /\ req[r].id \notin DOMAIN todos)
             => /\ req'[r].pc = "responded"
                /\ req'[r].status = StatusNotFound ]_vars

\* An Update of an id that is not stored, with an image and a subtasks text
\* that does not decode, was answered 404, and a Create with that form 400.
C19_Witness ==
    \E r, q \in Slots :
        /\ Answered(r, "PUT", StatusNotFound)
        /\ req[r].form = BadSubtasksUpload
        /\ Answered(q, "POST", StatusBadRequest)
        /\ req[q].form = BadSubtasksUpload
        /\ disk = {}

(***************************************************************************)
(* C20.  Keys and ID fields agree.                                         *)
(***************************************************************************)
\* C20: in every state, the record stored under a key k of todos has ID k,
\* and 1 <= k < nextID; and no step changes the ID field of a record or the
\* record a key that stays in todos stands for.
C20_KeyIsRecordID ==
    /\ [](\A k \in DOMAIN todos :
            /\ heap[todos[k]].ID = k
            /\ 1 <= k /\ k < nextID)
    /\ [][ /\ \A p \in 1..Len(heap) : heap'[p].ID = heap[p].ID
           /\ \A k \in DOMAIN todos \cap DOMAIN todos' :
                 todos'[k] = todos[k] ]_vars

\* After an Update and a Delete, a second todo is stored under key 2.
C20_Witness ==
    /\ 2 \in DOMAIN todos
    /\ heap[todos[2]].ID = 2
    /\ nextID = 3
    /\ \E r \in Slots : Answered(r, "PUT", StatusOK) \/
                         Answered(r, "DELETE", StatusNoContent)

====
